---- MODULE Spec2Model ----
(***************************************************************************)
(* Model of packages/tldraw/src/lib/utils/paths/svg_to_h5.py: the          *)
(* per-document normalizer (count_vertices, svg_to_base64_image,           *)
(* extract_latex_from_svg, process_svg_file) and the batch driver          *)
(* (__main__).  Documents are sequences of one-character strings, so that  *)
(* the regular expressions of the source are matched character by          *)
(* character.  Python floats are IEEE-754 binary64 values and are modelled *)
(* bit for bit (53-bit significand, round to nearest, ties to even).       *)
(***************************************************************************)
EXTENDS Integers, Sequences, FiniteSets, TLC

VARIABLES
    doc,            \* svg_content as read by process_svg_file
    pc,             \* position inside process_svg_file / svg_to_base64_image
    width,          \* svg_to_base64_image: width  (a whole number, -1 while unset)
    height,         \* svg_to_base64_image: height
    num_vertices,   \* svg_to_base64_image: num_vertices
    target_width,   \* svg_to_base64_image: target_width
    target_height,  \* svg_to_base64_image: target_height
    raster_input,   \* the text handed to cairosvg.svg2png
    image,          \* size of the padded image that is encoded
    label,          \* result of extract_latex_from_svg
    error,          \* the exception raised by process_svg_file, "" if none
    dataset_idx,    \* __main__: position in datasets (0 before the loop)
    files,          \* __main__: files, per dataset
    failing,        \* per dataset, the files on which process_svg_file raises
    file_idx,       \* __main__: file_idx
    batch_files,    \* __main__: batch_files
    task,           \* per dataset and file, the state of its pool task
    finish_order,   \* the tasks of the current pool in the order they finished
    batch,          \* __main__: the results pool.imap has yielded so far
    h5,             \* the output files written, by <<dataset, number>>
    dpc             \* position inside __main__

normVars == <<doc, pc, width, height, num_vertices, target_width,
              target_height, raster_input, image, label, error>>

driverVars == <<dataset_idx, files, failing, file_idx, batch_files, task,
                finish_order, batch, h5, dpc>>

vars == <<normVars, driverVars>>

(***************************************************************************)
(* Small helpers on sets and sequences.                                    *)
(***************************************************************************)
Least(S) == CHOOSE x \in S : \A y \in S : x <= y

Greatest(S) == CHOOSE x \in S : \A y \in S : y <= x

RECURSIVE Concat(_)
Concat(ss) == IF ss = << >> THEN << >> ELSE Head(ss) \o Concat(Tail(ss))

Zeros(n) == [i \in 1..n |-> 0]

(***************************************************************************)
(* Natural numbers of arbitrary size, as little-endian sequences of limbs  *)
(* in base 2^15.  They carry the 53-bit significands of binary64 values    *)
(* and the intermediate quotients, roots and products.                     *)
(***************************************************************************)
LimbBits == 15

Base == 2^LimbBits

\* bits: a sequence of 0/1, most significant first.
RECURSIVE BitsToInt(_)
BitsToInt(bits) ==
    IF bits = << >> THEN 0
    ELSE 2 * BitsToInt(SubSeq(bits, 1, Len(bits) - 1)) + bits[Len(bits)]

RECURSIVE IntToBits(_)
IntToBits(n) == IF n = 0 THEN << >> ELSE Append(IntToBits(n \div 2), n % 2)

StripZeros(bits) ==
    LET ones == {i \in 1..Len(bits) : bits[i] = 1}
    IN  IF ones = {} THEN << >> ELSE SubSeq(bits, Least(ones), Len(bits))

\* The limbs of the number whose binary digits are bits, on nl limbs.
BitsToBig(bits, nl) ==
    LET n == Len(bits)
        limb(j) == LET hi == n - LimbBits * (j - 1)
                       lo == hi - LimbBits + 1
                   IN  IF hi < 1 THEN 0
                       ELSE BitsToInt(SubSeq(bits, IF lo < 1 THEN 1 ELSE lo, hi))
    IN  [j \in 1..nl |-> limb(j)]

BigToBits(a) ==
    LET n == Len(a) * LimbBits
        bit(i) == (a[((n - i) \div LimbBits) + 1] \div 2^((n - i) % LimbBits)) % 2
    IN  StripZeros([i \in 1..n |-> bit(i)])

BigIsZero(a) == \A i \in 1..Len(a) : a[i] = 0

\* a >= b, for a and b on the same number of limbs.
BigGeq(a, b) ==
    LET diff == {i \in 1..Len(a) : a[i] # b[i]}
    IN  diff = {} \/ a[Greatest(diff)] > b[Greatest(diff)]

\* a + b + carry, on the limbs of a (the sum is known to fit).
RECURSIVE BigAddFrom(_, _, _, _)
BigAddFrom(a, b, i, carry) ==
    IF i > Len(a) THEN << >>
    ELSE LET s == a[i] + b[i] + carry
         IN  <<s % Base>> \o BigAddFrom(a, b, i + 1, s \div Base)

BigAdd(a, b) == BigAddFrom(a, b, 1, 0)

\* a - b for a >= b.
RECURSIVE BigSubFrom(_, _, _, _)
BigSubFrom(a, b, i, borrow) ==
    IF i > Len(a) THEN << >>
    ELSE LET d == a[i] - b[i] - borrow
         IN  <<IF d < 0 THEN d + Base ELSE d>>
                \o BigSubFrom(a, b, i + 1, IF d < 0 THEN 1 ELSE 0)

BigSub(a, b) == BigSubFrom(a, b, 1, 0)

\* k * a + c for a small k (k, c < Base), on the limbs of a.
RECURSIVE BigScaleFrom(_, _, _, _)
BigScaleFrom(a, k, i, carry) ==
    IF i > Len(a) THEN << >>
    ELSE LET s == k * a[i] + carry
         IN  <<s % Base>> \o BigScaleFrom(a, k, i + 1, s \div Base)

BigScale(a, k, c) == BigScaleFrom(a, k, 1, c)

\* a * b on Len(a) + Len(b) limbs (schoolbook multiplication).
RECURSIVE BigMulFrom(_, _, _)
BigMulFrom(a, b, i) ==
    LET nl == Len(a) + Len(b)
    IN  IF i > Len(a) THEN Zeros(nl)
        ELSE BigAdd(Zeros(i - 1) \o BigScale(b \o Zeros(Len(a) - i + 1), a[i], 0),
                    BigMulFrom(a, b, i + 1))

BigMul(a, b) == BigMulFrom(a, b, 1)

(***************************************************************************)
(* IEEE-754 binary64 arithmetic on positive normal values.  A value is     *)
(* [m |-> significand, e |-> exponent]: m is 53 binary digits, the first   *)
(* one 1, and the value is m * 2^e.  Zero, infinities, NaN and subnormal   *)
(* values do not occur in the computations modelled here (zero operands    *)
(* are handled where the source divides).                                  *)
(***************************************************************************)
Precision == 53

\* Limbs enough for 2 * (a remainder < 2^58).
WorkLimbs == 5

\* Round the exact value bits * 2^e (plus a nonzero tail when sticky) to
\* nearest, ties to even.  bits starts with a 1.
FloatRound(bits, sticky, e) ==
    LET n == Len(bits)
    IN  IF n <= Precision
        THEN [m |-> bits \o Zeros(Precision - n), e |-> e - (Precision - n)]
        ELSE LET m0   == SubSeq(bits, 1, Precision)
                 half == bits[Precision + 1] = 1
                 rest == sticky \/ \E i \in (Precision + 2)..n : bits[i] = 1
                 up   == half /\ (rest \/ m0[Precision] = 1)
                 m1   == BigToBits(BigScale(BitsToBig(m0, WorkLimbs), 1, 1))
             IN  IF ~up THEN [m |-> m0, e |-> e + (n - Precision)]
                 ELSE IF Len(m1) > Precision
                      THEN [m |-> SubSeq(m1, 1, Precision), e |-> e + (n - Precision) + 1]
                      ELSE [m |-> m1, e |-> e + (n - Precision)]

\* float(n) for a whole number 0 < n < 2^31.
IntToFloat(n) == FloatRound(IntToBits(n), FALSE, 0)

\* One step of restoring division: the next quotient digit.
DivStep(st, y) ==
    LET r2 == BigScale(st.rem, 2, 0)
        ge == BigGeq(r2, y)
    IN  [bits |-> Append(st.bits, IF ge THEN 1 ELSE 0),
         rem  |-> IF ge THEN BigSub(r2, y) ELSE r2]

\* n steps.  The halves are computed one after the other (the test on mid
\* makes TLC compute the first half before it starts the second), which
\* keeps the evaluation shallow.
RECURSIVE DivSteps(_, _, _)
DivSteps(st, y, n) ==
    IF n = 1 THEN DivStep(st, y)
    ELSE LET mid == DivSteps(st, y, n \div 2)
         IN  IF mid.bits = << >> THEN mid ELSE DivSteps(mid, y, n - n \div 2)

\* x / y
FloatDiv(x, y) ==
    LET X  == BitsToBig(x.m, WorkLimbs)
        Y  == BitsToBig(y.m, WorkLimbs)
        q0 == BigGeq(X, Y)
        d  == DivSteps([bits |-> <<IF q0 THEN 1 ELSE 0>>,
                        rem  |-> IF q0 THEN BigSub(X, Y) ELSE X], Y, Precision + 2)
    IN  FloatRound(StripZeros(d.bits), ~BigIsZero(d.rem), x.e - y.e - (Precision + 2))

\* x * y
FloatMul(x, y) ==
    LET nl == 4
        p  == BigMul(BitsToBig(x.m, nl), BitsToBig(y.m, nl))
    IN  FloatRound(BigToBits(p), FALSE, x.e + y.e)

\* One step of the digit-by-digit square root: the pair of radicand digits
\* at 2k-1 and 2k gives the k-th digit of the root.
SqrtStep(st, rad) ==
    LET k     == Len(st.bits) + 1
        r4    == BigScale(st.rem, 4, 2 * rad[2 * k - 1] + rad[2 * k])
        trial == BigScale(st.root, 4, 1)
        ge    == BigGeq(r4, trial)
    IN  [bits |-> Append(st.bits, IF ge THEN 1 ELSE 0),
         rem  |-> IF ge THEN BigSub(r4, trial) ELSE r4,
         root |-> BigScale(st.root, 2, IF ge THEN 1 ELSE 0)]

RECURSIVE SqrtSteps(_, _, _)
SqrtSteps(st, rad, n) ==
    IF n = 1 THEN SqrtStep(st, rad)
    ELSE LET mid == SqrtSteps(st, rad, n \div 2)
         IN  IF mid.bits = << >> THEN mid ELSE SqrtSteps(mid, rad, n - n \div 2)

\* math.sqrt(x)
FloatSqrt(x) ==
    LET odd   == x.e % 2 = 1
        e2    == IF odd THEN x.e - 1 ELSE x.e
        rad   == (IF odd THEN x.m \o <<0>> ELSE <<0>> \o x.m) \o Zeros(2 * (Precision \div 2 + 2))
        s     == SqrtSteps([bits |-> << >>, rem |-> Zeros(WorkLimbs),
                            root |-> Zeros(WorkLimbs)], rad, Len(rad) \div 2)
    IN  FloatRound(StripZeros(s.bits), ~BigIsZero(s.rem), e2 \div 2 - (Precision \div 2 + 2))

\* int(x) for 1 > x or x < 2^31: the digits left of the binary point.
FloatTrunc(x) ==
    IF -x.e >= Precision THEN 0 ELSE BitsToInt(SubSeq(x.m, 1, Precision + x.e))

(***************************************************************************)
(* Text.  A document is a sequence of characters.                          *)
(***************************************************************************)
Quote == "\""

\* \s of the regular expressions, and the characters float() strips.
Whitespace == {" ", "\n", "\t", "\r"}

Digits == <<"0", "1", "2", "3", "4", "5", "6", "7", "8", "9">>

CommandLetters == {"M", "L", "H", "V", "C", "S", "Q", "T", "A",
                   "m", "l", "h", "v", "c", "s", "q", "t", "a"}

NAME_VIEWBOX == <<"v", "i", "e", "w", "B", "o", "x">>
NAME_WIDTH   == <<"w", "i", "d", "t", "h">>
NAME_HEIGHT  == <<"h", "e", "i", "g", "h", "t">>
NAME_D       == <<"d">>
NAME_ID      == <<"i", "d">>
NAME_STROKE_WIDTH == <<"s", "t", "r", "o", "k", "e", "-">> \o NAME_WIDTH
LABEL_OPEN   == <<"<", "l", "a", "b", "e", "l", ">">>
LABEL_CLOSE  == <<"<", "/", "l", "a", "b", "e", "l", ">">>

\* The literal name=" of the patterns.
AttrPrefix(name) == name \o <<"=", Quote>>

\* s has the literal lit at position i.
MatchAt(s, i, lit) ==
    /\ i + Len(lit) - 1 <= Len(s)
    /\ \A k \in 1..Len(lit) : s[i + k - 1] = lit[k]

Occurrences(s, lit) == {i \in 1..Len(s) : MatchAt(s, i, lit)}

\* The position of the first quote at or after from, 0 when there is none.
NextQuote(s, from) ==
    LET qs == {q \in from..Len(s) : s[q] = Quote}
    IN  IF qs = {} THEN 0 ELSE Least(qs)

(***************************************************************************)
(* count_vertices                                                          *)
(***************************************************************************)
\* re.findall(r'd="([^"]*)"', svg_content): the matches from left to right,
\* each search resuming after the closing quote of the match before.
RECURSIVE FindPathData(_, _)
FindPathData(s, from) ==
    LET lit    == AttrPrefix(NAME_D)
        starts == {i \in from..Len(s) :
                      MatchAt(s, i, lit) /\ NextQuote(s, i + Len(lit)) # 0}
    IN  IF starts = {} THEN << >>
        ELSE LET i == Least(starts)
                 q == NextQuote(s, i + Len(lit))
             IN  <<SubSeq(s, i + Len(lit), q - 1)>> \o FindPathData(s, q + 1)

\* len(re.findall(r'[MLHVCSQTAmlhvcsqta][^MLHVCSQTAmlhvcsqta]*', path)):
\* a match starts at a command letter and runs up to the next one.
RECURSIVE CountCommands(_, _)
CountCommands(path, from) ==
    LET cmds == {i \in from..Len(path) : path[i] \in CommandLetters}
    IN  IF cmds = {} THEN 0
        ELSE LET i     == Least(cmds)
                 later == {j \in (i + 1)..Len(path) : path[j] \in CommandLetters}
                 stop  == IF later = {} THEN Len(path) + 1 ELSE Least(later)
             IN  1 + CountCommands(path, stop)

RECURSIVE SumCommands(_)
SumCommands(paths) ==
    IF paths = << >> THEN 0
    ELSE CountCommands(Head(paths), 1) + SumCommands(Tail(paths))

\* A count of the distinct command letters of each path instead of the
\* commands.
RECURSIVE SumDistinctLetters(_)
SumDistinctLetters(paths) ==
    IF paths = << >> THEN 0
    ELSE Cardinality({Head(paths)[i] : i \in {j \in 1..Len(Head(paths)) :
                         Head(paths)[j] \in CommandLetters}})
         + SumDistinctLetters(Tail(paths))

count_vertices_distinct(svg_content) == SumDistinctLetters(FindPathData(svg_content, 1))

count_vertices(svg_content) == SumCommands(FindPathData(svg_content, 1))

(***************************************************************************)
(* svg_to_base64_image: the dimensions                                     *)
(***************************************************************************)
\* The part of the viewBox pattern that follows viewBox=" is
\*     [^"]*?\s+  [^"]*?\s+  ([^"]*?)\s+  ([^"]*?)"
\* c is the text between viewBox=" and the next quote (no part of the
\* pattern matches a quote).  Pieces 1 to 3 are a lazy run followed by a
\* greedy run of whitespace; piece 4 is the rest of c.
RECURSIVE PiecesMatch(_, _, _)
PiecesMatch(c, piece, from) ==
    \/ piece = 4
    \/ \E a \in from..Len(c) : \E b \in a..Len(c) :
          /\ \A k \in a..b : c[k] \in Whitespace
          /\ PiecesMatch(c, piece + 1, b + 1)

\* The whitespace run [a, b] the matcher settles on for a piece: the
\* shortest lazy run before it, then the longest whitespace run, such that
\* the pieces after it still match.
PieceSpace(c, piece, from) ==
    LET ok(a, b) == /\ \A k \in a..b : c[k] \in Whitespace
                    /\ PiecesMatch(c, piece + 1, b + 1)
        a0 == Least({a \in from..Len(c) : \E b \in a..Len(c) : ok(a, b)})
        b0 == Greatest({b \in a0..Len(c) : ok(a0, b)})
    IN  <<a0, b0>>

\* re.search(r'viewBox="[^"]*?\s+[^"]*?\s+([^"]*?)\s+([^"]*?)"', svg_content)
ViewBoxSearch(s) ==
    LET lit     == AttrPrefix(NAME_VIEWBOX)
        inner(i) == SubSeq(s, i + Len(lit), NextQuote(s, i + Len(lit)) - 1)
        starts  == {i \in Occurrences(s, lit) :
                       /\ NextQuote(s, i + Len(lit)) # 0
                       /\ PiecesMatch(inner(i), 1, 1)}
    IN  IF starts = {} THEN [found |-> FALSE, group1 |-> << >>, group2 |-> << >>]
        ELSE LET c  == inner(Least(starts))
                 w1 == PieceSpace(c, 1, 1)
                 w2 == PieceSpace(c, 2, w1[2] + 1)
                 w3 == PieceSpace(c, 3, w2[2] + 1)
             IN  [found  |-> TRUE,
                  group1 |-> SubSeq(c, w2[2] + 1, w3[1] - 1),
                  group2 |-> SubSeq(c, w3[2] + 1, Len(c))]

\* re.search(r'width="([^"]*?)"', svg_content), and the same for height.
AttrSearch(s, name) ==
    LET lit    == AttrPrefix(name)
        starts == {i \in Occurrences(s, lit) : NextQuote(s, i + Len(lit)) # 0}
    IN  IF starts = {} THEN [found |-> FALSE, group1 |-> << >>]
        ELSE LET i == Least(starts)
             IN  [found  |-> TRUE,
                  group1 |-> SubSeq(s, i + Len(lit), NextQuote(s, i + Len(lit)) - 1)]

DigitValue(c) == (CHOOSE k \in 1..Len(Digits) : Digits[k] = c) - 1

RECURSIVE DecimalValue(_)
DecimalValue(t) ==
    IF t = << >> THEN 0
    ELSE 10 * DecimalValue(SubSeq(t, 1, Len(t) - 1)) + DigitValue(t[Len(t)])

\* float(t) on texts of digits, whitespace and other characters: leading and
\* trailing whitespace is stripped, a nonempty run of digits is its decimal
\* value, and anything else (a unit, a comma, inner whitespace, nothing at
\* all) raises ValueError.  Signs, decimal points and exponents are not in
\* the texts of this model.
ParseFloat(t) ==
    LET solid == {i \in 1..Len(t) : t[i] \notin Whitespace}
        core  == IF solid = {} THEN << >>
                 ELSE SubSeq(t, Least(solid), Greatest(solid))
        isNum == /\ core # << >>
                 /\ \A i \in 1..Len(core) : \E k \in 1..Len(Digits) : Digits[k] = core[i]
    IN  IF isNum THEN [ok |-> TRUE, val |-> DecimalValue(core)]
        ELSE [ok |-> FALSE, val |-> 0]

default_dimension == 1024

\* Lines 68-78: the outcome is the pair of dimensions, or ValueError.
ExtractDimensionsResult(s) ==
    LET vb == ViewBoxSearch(s)
        wm == AttrSearch(s, NAME_WIDTH)
        hm == AttrSearch(s, NAME_HEIGHT)
        w  == IF vb.found THEN ParseFloat(vb.group1)
              ELSE IF wm.found THEN ParseFloat(wm.group1)
              ELSE [ok |-> TRUE, val |-> default_dimension]
        h  == IF vb.found THEN ParseFloat(vb.group2)
              ELSE IF hm.found THEN ParseFloat(hm.group1)
              ELSE [ok |-> TRUE, val |-> default_dimension]
    IN  IF w.ok /\ h.ok THEN [error |-> "", width |-> w.val, height |-> h.val]
        ELSE [error |-> "ValueError", width |-> -1, height |-> -1]

(***************************************************************************)
(* svg_to_base64_image: the target resolution                              *)
(***************************************************************************)
base_target_area == 40000

area_per_vertex == 800

TargetArea(vertices) == base_target_area + vertices * area_per_vertex

\* aspect_ratio = width / height
AspectRatio(w, h) == FloatDiv(IntToFloat(w), IntToFloat(h))

\* target_height = int(math.sqrt(target_area / aspect_ratio))
TargetHeight(w, h, vertices) ==
    FloatTrunc(FloatSqrt(FloatDiv(IntToFloat(TargetArea(vertices)), AspectRatio(w, h))))

\* target_height * (width // height): the ratio taken in whole numbers.
TargetWidth_whole_ratio(th, w, h) == th * (w \div h)

\* target_width = int(target_height * aspect_ratio)
TargetWidth(th, w, h) ==
    IF th = 0 THEN 0 ELSE FloatTrunc(FloatMul(IntToFloat(th), AspectRatio(w, h)))

(***************************************************************************)
(* svg_to_base64_image: the label is removed, the rest is rasterized and   *)
(* padded; extract_latex_from_svg                                          *)
(***************************************************************************)
\* svg_content.rsplit("<label>", 1)[0]: cut at the last tag, not the first.
StripLabel_last(s) ==
    LET occ == Occurrences(s, LABEL_OPEN)
    IN  IF occ = {} THEN s ELSE SubSeq(s, 1, Greatest(occ) - 1)

\* svg_content.split("<label>")[0]
StripLabel(s) ==
    LET occ == Occurrences(s, LABEL_OPEN)
    IN  IF occ = {} THEN s ELSE SubSeq(s, 1, Least(occ) - 1)

pad_width == 30

pad_height == 30

\* pad_image: the size of the padded image.
PadImage(w, h) == <<w + 2 * pad_width, h + 2 * pad_height>>

\* re.search(r'<label>(.*?)</label>', svg_content): the dot matches any
\* character but a newline.
ExtractLatex(s) ==
    LET body(i)  == i + Len(LABEL_OPEN)
        ends(i)  == {j \in body(i)..Len(s) :
                        /\ MatchAt(s, j, LABEL_CLOSE)
                        /\ \A k \in body(i)..(j - 1) : s[k] # "\n"}
        starts   == {i \in Occurrences(s, LABEL_OPEN) : ends(i) # {}}
    IN  IF starts = {} THEN << >>
        ELSE LET i == Least(starts)
             IN  SubSeq(s, body(i), Least(ends(i)) - 1)

(***************************************************************************)
(* process_svg_file on one document.                                       *)
(*   pc = "start"    svg_content has been read                             *)
(*   pc = "dims"     width and height are set           (after line 78)    *)
(*   pc = "target"   target_width/target_height are set (after line 89)    *)
(*   pc = "image"    svg_to_base64_image has returned   (after line 114)   *)
(*   pc = "returned" process_svg_file has returned                         *)
(*   pc = "raised"   an exception has left process_svg_file                *)
(***************************************************************************)
NormStart(d) ==
    /\ doc = d
    /\ pc = "start"
    /\ width = -1 /\ height = -1 /\ num_vertices = -1
    /\ target_width = -1 /\ target_height = -1
    /\ raster_input = << >> /\ image = <<0, 0>> /\ label = << >> /\ error = ""

\* Lines 68-78.
ExtractDimensions ==
    /\ pc = "start"
    /\ LET r == ExtractDimensionsResult(doc)
       IN  /\ width' = r.width
           /\ height' = r.height
           /\ error' = r.error
           /\ pc' = IF r.error = "" THEN "dims" ELSE "raised"
    /\ UNCHANGED <<doc, num_vertices, target_width, target_height,
                   raster_input, image, label, driverVars>>

\* Lines 80-89.  width / height raises ZeroDivisionError for height = 0, and
\* target_area / aspect_ratio raises it for an aspect ratio of 0.0.
ComputeTargetResolution ==
    /\ pc = "dims"
    /\ IF height = 0 \/ width = 0
       THEN /\ error' = "ZeroDivisionError"
            /\ pc' = "raised"
            /\ UNCHANGED <<num_vertices, target_width, target_height>>
       ELSE /\ num_vertices' = count_vertices(doc)
            /\ target_height' = TargetHeight(width, height, num_vertices')
            /\ target_width' = TargetWidth(target_height', width, height)
            /\ pc' = "target"
            /\ UNCHANGED error
    /\ UNCHANGED <<doc, width, height, raster_input, image, label, driverVars>>

\* Lines 91-114.  cairosvg.svg2png is a library: it returns a bitmap of the
\* size asked for, or raises on text that it cannot render.
Rasterize ==
    /\ pc = "target"
    /\ raster_input' = StripLabel(doc)
    /\ \E rendered \in BOOLEAN :
          IF rendered
          THEN /\ image' = PadImage(target_width, target_height)
               /\ pc' = "image"
               /\ UNCHANGED error
          ELSE /\ error' = "RenderError"
               /\ pc' = "raised"
               /\ UNCHANGED image
    /\ UNCHANGED <<doc, width, height, num_vertices, target_width,
                   target_height, label, driverVars>>

\* Lines 130-135.
ExtractLatexFromSvg ==
    /\ pc = "image"
    /\ label' = ExtractLatex(doc)
    /\ pc' = "returned"
    /\ UNCHANGED <<doc, width, height, num_vertices, target_width,
                   target_height, raster_input, image, error, driverVars>>

NormNext ==
    \/ ExtractDimensions
    \/ ComputeTargetResolution
    \/ Rasterize
    \/ ExtractLatexFromSvg

(***************************************************************************)
(* The documents the normalizer is run on.                                 *)
(***************************************************************************)
RECURSIVE ToDecimal(_)
ToDecimal(n) ==
    IF n < 10 THEN <<Digits[n + 1]>>
    ELSE Append(ToDecimal(n \div 10), Digits[(n % 10) + 1])

RECURSIVE Join(_, _)
Join(texts, sep) ==
    IF Len(texts) = 0 THEN << >>
    ELSE IF Len(texts) = 1 THEN texts[1]
    ELSE texts[1] \o sep \o Join(Tail(texts), sep)

Attr(name, value) == <<" ">> \o AttrPrefix(name) \o value \o <<Quote>>

Svg(attrs, body) ==
    <<"<", "s", "v", "g">> \o attrs \o <<">">> \o body \o <<"<", "/", "s", "v", "g", ">">>

PathElement(attrs) == <<"<", "p", "a", "t", "h">> \o attrs \o <<"/", ">">>

\* An optional attribute: none, or one of the values.
OptAttr(name, values) == {<< >>} \cup {Attr(name, v) : v \in values}

\* Documents with and without dimensions: a viewBox of three or four
\* fields separated by blanks or commas, width, height, and a stroke-width
\* on a path.
FieldTexts == {<<"0">>, <<"2">>, <<"4">>, <<"2", "p", "x">>}

ViewBoxTexts ==
    {Join(<<(<<"0">>), (<<"0">>), a, b>>, sep) :
        a \in FieldTexts, b \in FieldTexts, sep \in {<<" ">>, <<",">>}}
    \cup {Join(<<(<<"0">>), (<<"0">>), a>>, sep) :
        a \in FieldTexts, sep \in {<<" ">>, <<",">>}}

DimsDocs ==
    {Svg(vb \o w \o h, PathElement(sw)) :
        vb \in OptAttr(NAME_VIEWBOX, ViewBoxTexts),
        w  \in OptAttr(NAME_WIDTH, {<<"2">>, <<"2", "p", "x">>}),
        h  \in OptAttr(NAME_HEIGHT, {<<"0">>, <<"4">>}),
        sw \in OptAttr(NAME_STROKE_WIDTH, {<<"3">>})}

\* Documents with paths: up to MaxPaths path elements, each with a command
\* string and possibly an id.
MaxPaths == 2

ExampleViewBox == <<"0", " ", "0", " ", "2", "0", "0", " ", "1", "0", "0">>

ExamplePath == <<"M", "0", ",", "0", " ", "L", "5", "0", ",", "5", "0", " ",
                 "L", "1", "0", "0", ",", "0">>

PathTexts == {ExamplePath,
              <<"L", " ", "1", ",", "2", " ", "3", ",", "4", " ", "5", ",", "6">>,
              <<"m", "0", ",", "0", " ", "l", "5", ",", "5", "z">>}

PathElements ==
    {PathElement(id \o Attr(NAME_D, cmds)) :
        id \in OptAttr(NAME_ID, {<<"a", "1">>}), cmds \in PathTexts}

PathDocs ==
    {Svg(vb, Concat(ps)) :
        vb \in OptAttr(NAME_VIEWBOX, {ExampleViewBox}),
        ps \in UNION {[1..k -> PathElements] : k \in 0..MaxPaths}}

ExampleDoc == Svg(Attr(NAME_VIEWBOX, ExampleViewBox), PathElement(Attr(NAME_D, ExamplePath)))

\* Documents with label tags: up to MaxLabelParts pieces after <svg>, each an
\* opening tag, a closing tag, a letter or a newline.
MaxLabelParts == 4

LabelParts == {LABEL_OPEN, LABEL_CLOSE, <<"x">>, <<"\n">>}

LabelDocs ==
    {<<"<", "s", "v", "g", ">">> \o Concat(ps) :
        ps \in UNION {[1..k -> LabelParts] : k \in 0..MaxLabelParts}}

\* Documents of every size: a viewBox of w by h and one path of v commands.
MaxWidth == 7

MaxHeight == 6

MaxVertices == 34

SizedDoc(w, h, v) ==
    Svg(Attr(NAME_VIEWBOX, Join(<<(<<"0">>), (<<"0">>), ToDecimal(w), ToDecimal(h)>>, <<" ">>)),
        PathElement(Attr(NAME_D, Concat([i \in 1..v |->
            IF i = 1 THEN <<"M", "0", ",", "0">> ELSE <<" ", "L", "1", ",", "1">>]))))

SizedDocs ==
    {SizedDoc(w, h, v) : w \in 1..MaxWidth, h \in 1..MaxHeight, v \in 0..MaxVertices}

(***************************************************************************)
(* The batch driver, __main__.                                             *)
(*   dpc = "dataset"  at the head of the loop over datasets (line 143)     *)
(*   dpc = "batch"    at the head of the loop over file_idx (line 148)     *)
(*   dpc = "pool"     inside list(pool.imap(...))       (lines 154-159)    *)
(*   dpc = "write"    the pool is closed, the file is next (line 161)      *)
(*   dpc = "done"     the script has ended                                 *)
(*   dpc = "aborted"  an exception has ended the script                    *)
(* A file of a dataset is its position in the glob result; its task is     *)
(* "pending", "running", "done" or "raised".                               *)
(***************************************************************************)
datasets == <<"quickdraw", "iam">>

\* At most MaxFiles files per dataset.
MaxFiles == 4

\* The source sets items_per_file = 2000 (line 145) and num_processes = 20
\* (line 141); the driver is the same for every value of the two, and
\* small ones are taken here.
items_per_file == 2

num_processes == 2

\* len(files) // items_per_file: the last, shorter group is forgotten.
NumFiles_floor(n) == n \div items_per_file

\* math.ceil(len(files) / items_per_file)
NumFiles(n) == (n + items_per_file - 1) \div items_per_file

\* start_idx = file_idx * items_per_file
StartIdx(idx) == idx * items_per_file

\* end_idx = min((file_idx + 1) * items_per_file, len(files))
EndIdx(idx, n) ==
    IF (idx + 1) * items_per_file < n THEN (idx + 1) * items_per_file ELSE n

\* files[start_idx:end_idx]: the positions start_idx + 1 .. end_idx.
BatchFiles(idx, n) == [i \in 1..(EndIdx(idx, n) - StartIdx(idx)) |-> StartIdx(idx) + i]

\* What process_svg_file returns for file f of dataset ds.
Item(ds, f) == [image |-> <<"image", ds, f>>, label |-> <<"label", ds, f>>]

problem_text == "Interactive Math Lesson, Generic"

confidence_value == 7

\* f"<transcription>\n{item['label']}\n</transcription>"
Transcription(l) == <<"<transcription>\n", l, "\n</transcription>">>

ImagesColumn(b) == [i \in 1..Len(b) |-> b[i].image]

ProblemsColumn(b) == [i \in 1..Len(b) |-> problem_text]

\* The labels taken from the results in the opposite order.
LabelsColumn_reversed(b) == [i \in 1..Len(b) |-> Transcription(b[Len(b) + 1 - i].label)]

LabelsColumn(b) == [i \in 1..Len(b) |-> Transcription(b[i].label)]

ConfidencesColumn(b) == [i \in 1..Len(b) |-> confidence_value]

CurrentDataset == datasets[dataset_idx]

DriverInit ==
    /\ dataset_idx = 0
    /\ files = [ds \in 1..Len(datasets) |-> << >>]
    /\ failing = [ds \in 1..Len(datasets) |-> {}]
    /\ file_idx = 0
    /\ batch_files = << >>
    /\ task = [ds \in 1..Len(datasets) |-> << >>]
    /\ finish_order = << >>
    /\ batch = << >>
    /\ h5 = << >>
    /\ dpc = "dataset"

\* Lines 143-147: the next dataset and its glob, or the end of the script.
\* The files found, and those among them that process_svg_file raises on,
\* are what the disk holds.
StartDataset ==
    /\ dpc = "dataset"
    /\ IF dataset_idx = Len(datasets)
       THEN /\ dpc' = "done"
            /\ UNCHANGED <<dataset_idx, files, failing, task, file_idx>>
       ELSE /\ dataset_idx' = dataset_idx + 1
            /\ \E n \in 0..MaxFiles : \E bad \in SUBSET (1..n) :
                  /\ files' = [files EXCEPT ![dataset_idx'] = [i \in 1..n |-> i]]
                  /\ failing' = [failing EXCEPT ![dataset_idx'] = bad]
                  /\ task' = [task EXCEPT ![dataset_idx'] = [i \in 1..n |-> "pending"]]
            /\ file_idx' = 0
            /\ dpc' = "batch"
    /\ UNCHANGED <<batch_files, finish_order, batch, h5, normVars>>

\* Lines 148-154: the next group and its pool, or the next dataset.
StartBatch ==
    /\ dpc = "batch"
    /\ IF file_idx = NumFiles(Len(files[dataset_idx]))
       THEN /\ dpc' = "dataset"
            /\ UNCHANGED <<batch_files, finish_order, batch>>
       ELSE /\ batch_files' = BatchFiles(file_idx, Len(files[dataset_idx]))
            /\ finish_order' = << >>
            /\ batch' = << >>
            /\ dpc' = "pool"
    /\ UNCHANGED <<dataset_idx, files, failing, file_idx, task, h5, normVars>>

Running == {f \in 1..Len(files[dataset_idx]) : task[dataset_idx][f] = "running"}

PendingInBatch ==
    {i \in 1..Len(batch_files) : task[dataset_idx][batch_files[i]] = "pending"}

\* A free worker of the pool takes the next task of the queue.
WorkerStart ==
    /\ dpc = "pool"
    /\ Cardinality(Running) < num_processes
    /\ PendingInBatch # {}
    /\ task' = [task EXCEPT ![dataset_idx][batch_files[Least(PendingInBatch)]] = "running"]
    /\ UNCHANGED <<dataset_idx, files, failing, file_idx, batch_files,
                   finish_order, batch, h5, dpc, normVars>>

\* A worker finishes process_svg_file on a file f: with a result, or with the
\* exception the file makes it raise.
WorkerFinish ==
    /\ dpc = "pool"
    /\ \E f \in Running :
          /\ task' = [task EXCEPT ![dataset_idx][f] =
                         IF f \in failing[dataset_idx] THEN "raised" ELSE "done"]
          /\ finish_order' = Append(finish_order, f)
    /\ UNCHANGED <<dataset_idx, files, failing, file_idx, batch_files,
                   batch, h5, dpc, normVars>>

\* list(pool.imap(...)) takes the results in the order of batch_files.  The
\* result of a task that raised is the exception, raised again in the
\* driver: nothing catches it, the pool is terminated and the script ends.
ImapNext ==
    /\ dpc = "pool"
    /\ Len(batch) < Len(batch_files)
    /\ LET f == batch_files[Len(batch) + 1]
       IN  /\ task[dataset_idx][f] \in {"done", "raised"}
           /\ IF task[dataset_idx][f] = "done"
              THEN /\ batch' = Append(batch, Item(CurrentDataset, f))
                   /\ dpc' = IF Len(batch') = Len(batch_files) THEN "write" ELSE "pool"
              ELSE /\ dpc' = "aborted"
                   /\ UNCHANGED batch
    /\ UNCHANGED <<dataset_idx, files, failing, file_idx, batch_files, task,
                   finish_order, h5, normVars>>

\* Lines 161-173: vision_data_{file_idx+1}.h5 with its four columns.
WriteFile ==
    /\ dpc = "write"
    /\ h5' = (<<CurrentDataset, file_idx + 1>> :>
                 [images      |-> ImagesColumn(batch),
                  problems    |-> ProblemsColumn(batch),
                  labels      |-> LabelsColumn(batch),
                  confidences |-> ConfidencesColumn(batch)]) @@ h5
    /\ file_idx' = file_idx + 1
    /\ dpc' = "batch"
    /\ UNCHANGED <<dataset_idx, files, failing, batch_files, task,
                   finish_order, batch, normVars>>

DriverNext ==
    \/ StartDataset
    \/ StartBatch
    \/ WorkerStart
    \/ WorkerFinish
    \/ ImapNext
    \/ WriteFile

NormIdle == NormStart(<< >>)

InitDriver == DriverInit /\ NormIdle

SpecDriver == InitDriver /\ [][DriverNext]_vars

DriverIdle ==
    /\ dataset_idx = 0
    /\ files = << >> /\ failing = << >> /\ file_idx = 0 /\ batch_files = << >>
    /\ task = << >> /\ finish_order = << >> /\ batch = << >> /\ h5 = << >>
    /\ dpc = "idle"

InitDims == (\E d \in DimsDocs : NormStart(d)) /\ DriverIdle

InitPaths == (\E d \in PathDocs : NormStart(d)) /\ DriverIdle

InitLabels == (\E d \in LabelDocs : NormStart(d)) /\ DriverIdle

InitSized == (\E d \in SizedDocs : NormStart(d)) /\ DriverIdle

SpecDims == InitDims /\ [][NormNext]_vars

SpecPaths == InitPaths /\ [][NormNext]_vars

SpecLabels == InitLabels /\ [][NormNext]_vars

SpecSized == InitSized /\ [][NormNext]_vars
(***************************************************************************)
(* Notions the properties below are stated with.                           *)
(***************************************************************************)
\* The document has an attribute of this name: the name follows a blank.
HasAttr(d, name) == Occurrences(d, <<" ">> \o AttrPrefix(name)) # {}

\* The values of the attributes of this name, as a set of <<first, last>>
\* positions.
AttrValueSpans(d, name) ==
    LET lit == <<" ">> \o AttrPrefix(name)
    IN  {<<i + Len(lit), NextQuote(d, i + Len(lit)) - 1>> : i \in Occurrences(d, lit)}

\* The blank-separated fields of a text, as <<first, last>> positions in
\* the order they appear.
FieldSpans(t) ==
    LET solid(i)  == i >= 1 /\ i <= Len(t) /\ t[i] \notin Whitespace
        firsts    == {i \in 1..Len(t) : solid(i) /\ ~solid(i - 1)}
        last(i)   == Greatest({j \in i..Len(t) : \A k \in i..j : solid(k)})
        before(i) == Cardinality({j \in firsts : j < i})
    IN  [k \in 1..Cardinality(firsts) |->
            LET i == CHOOSE j \in firsts : before(j) = k - 1 IN <<i, last(i)>>]

IsNumber(t) == t # << >> /\ \A i \in 1..Len(t) : \E k \in 1..Len(Digits) : Digits[k] = t[i]

DimensionsKnown == pc \in {"dims", "target", "image", "returned"}

ResolutionKnown ==
    pc \in {"target", "image", "returned"} \/ (pc = "raised" /\ error = "RenderError")

RasterizerCalled ==
    pc \in {"image", "returned"} \/ (pc = "raised" /\ error = "RenderError")

\* C1: whatever files of a group make process_svg_file raise, the driver
\* does not abort; it writes the file of every group, with exactly one
\* record for each file of the group that did not fail, and goes on to the
\* groups after it.
C1_FailuresAreSkipped ==
    /\ dpc # "aborted"
    /\ dpc = "done" =>
          \A ds \in 1..Len(datasets) : \A k \in 1..NumFiles(Len(files[ds])) :
              /\ <<datasets[ds], k>> \in DOMAIN h5
              /\ Len(h5[<<datasets[ds], k>>].images) =
                    Cardinality({f \in 1..Len(files[ds]) :
                        /\ (k - 1) * items_per_file < f
                        /\ f <= k * items_per_file
                        /\ f \notin failing[ds]})

\* C2: the dimension and resolution steps of svg_to_base64_image never end
\* in an error: no ValueError from a malformed number and no
\* ZeroDivisionError is raised before rasterization.
C2_NoErrorBeforeRasterization ==
    /\ error \notin {"ValueError", "ZeroDivisionError"}
    /\ pc = "raised" => error = "RenderError"

\* C3: a document with no viewBox, width or height attribute gets the
\* dimensions 1024 by 1024, whatever else it holds; a document with a
\* viewBox of four blank-separated numbers gets its third and fourth field,
\* whatever its width and height attributes say.
C3_DefaultDimensions ==
    DimensionsKnown =>
        /\ (~HasAttr(doc, NAME_VIEWBOX) /\ ~HasAttr(doc, NAME_WIDTH)
                /\ ~HasAttr(doc, NAME_HEIGHT))
              => (width = default_dimension /\ height = default_dimension)
        /\ \A span \in AttrValueSpans(doc, NAME_VIEWBOX) :
              LET t == SubSeq(doc, span[1], span[2])
                  f == FieldSpans(t)
                  third  == SubSeq(t, f[3][1], f[3][2])
                  fourth == SubSeq(t, f[4][1], f[4][2])
              IN  (Len(f) = 4 /\ IsNumber(third) /\ IsNumber(fourth))
                    => (width = DecimalValue(third) /\ height = DecimalValue(fourth))

\* C4 as stated: the document with viewBox "0 0 200 100" and the one path
\* "M0,0 L50,50 L100,0" has 2 vertices, a target area of 41600 and a
\* resolution of 288 by 144.
C4_ExampleAsStated ==
    (doc = ExampleDoc /\ ResolutionKnown) =>
        /\ num_vertices = 2
        /\ TargetArea(num_vertices) = 41600
        /\ target_height = 144
        /\ target_width = 288

\* C4, amended: the document with viewBox "0 0 200 100" and the one path
\* "M0,0 L50,50 L100,0" has 3 vertices (one per command letter), a target
\* area of 42400 and a resolution of 290 by 145.
C4_ExampleResolution ==
    (doc = ExampleDoc /\ ResolutionKnown) =>
        /\ num_vertices = 3
        /\ TargetArea(num_vertices) = 42400
        /\ target_height = 145
        /\ target_width = 290

C4_ExampleComputed == doc = ExampleDoc /\ pc = "target"

\* C5: count_vertices is the number of command letters, of either case, in
\* the command strings of the path elements (the values of their d
\* attributes); nothing outside these strings is counted.
C5_CountIsOverPathCommands ==
    ResolutionKnown =>
        num_vertices =
            Cardinality({i \in 1..Len(doc) :
                /\ doc[i] \in CommandLetters
                /\ \E span \in AttrValueSpans(doc, NAME_D) : span[1] <= i /\ i <= span[2]})

\* C6: extract_latex_from_svg returns the text between the first opening
\* label tag and the first closing label tag after it, whatever that text
\* is (several lines, nothing), and the empty text when the document has no
\* opening label tag.
C6_LabelIsFirstTagContent ==
    pc = "returned" =>
        LET opens  == Occurrences(doc, LABEL_OPEN)
            from   == Least(opens) + Len(LABEL_OPEN)
            closes == {j \in Occurrences(doc, LABEL_CLOSE) : j >= from}
        IN  /\ opens = {} => label = << >>
            /\ (opens # {} /\ closes # {}) => label = SubSeq(doc, from, Least(closes) - 1)

\* C7: the text handed to the rasterizer is the part of the document before
\* its first opening label tag, the whole document when it has none; no
\* opening label tag is in it.
C7_RasterInputIsPrefix ==
    RasterizerCalled =>
        /\ Len(raster_input) <= Len(doc)
        /\ raster_input = SubSeq(doc, 1, Len(raster_input))
        /\ Occurrences(raster_input, LABEL_OPEN) = {}
        /\ Len(raster_input) < Len(doc) => MatchAt(doc, Len(raster_input) + 1, LABEL_OPEN)

C7_TwoLabelsStripped ==
    /\ pc = "image"
    /\ Cardinality(Occurrences(doc, LABEL_OPEN)) >= 2
    /\ Cardinality(Occurrences(doc, LABEL_CLOSE)) >= 1
    /\ Len(raster_input) < Len(doc)

C9_RowsCorrespond ==
    \A key \in DOMAIN h5 :
        LET out == h5[key]
            n   == Len(out.images)
        IN  /\ Len(out.problems) = n /\ Len(out.labels) = n /\ Len(out.confidences) = n
            /\ \A i \in 1..n : \E f \in 1..MaxFiles :
                  /\ out.images[i] = Item(key[1], f).image
                  /\ out.labels[i] = Transcription(Item(key[1], f).label)

C9_WrittenOutOfOrder ==
    /\ dpc = "batch"
    /\ Len(finish_order) >= 2
    /\ finish_order[1] > finish_order[2]
    /\ <<datasets[dataset_idx], file_idx>> \in DOMAIN h5
    /\ Len(h5[<<datasets[dataset_idx], file_idx>>].images) >= 2

\* The files of dataset ds that the records of output file k come from.
SourcesOf(ds, k) ==
    LET col == h5[<<datasets[ds], k>>].images IN [i \in 1..Len(col) |-> col[i][3]]

\* C10: the n files of a dataset are cut into ceil(n / items_per_file)
\* consecutive groups numbered from 1: a group holds items_per_file files,
\* the last one the rest, none is empty; the file of group k holds group k,
\* is written only once all the tasks of group k are done, and no task of
\* group k + 1 starts before it is written.
C10_GroupsInOrder ==
    /\ \A key \in DOMAIN h5 : \E ds \in 1..Len(datasets) :
          LET k == key[2]
              n == Len(files[ds])
              last == IF k * items_per_file < n THEN k * items_per_file ELSE n
          IN  /\ key[1] = datasets[ds]
              /\ k >= 1
              /\ (k - 1) * items_per_file < n
              /\ SourcesOf(ds, k) =
                    [i \in 1..(last - (k - 1) * items_per_file) |-> (k - 1) * items_per_file + i]
              /\ \A i \in 1..Len(SourcesOf(ds, k)) : task[ds][SourcesOf(ds, k)[i]] = "done"
    /\ \A ds \in 1..Len(datasets) : \A f \in 1..Len(files[ds]) :
          LET k == (f - 1) \div items_per_file + 1
          IN  /\ (task[ds][f] # "pending" /\ k > 1) => <<datasets[ds], k - 1>> \in DOMAIN h5
              /\ (dpc = "done" \/ (dpc # "aborted" /\ ds < dataset_idx))
                    => <<datasets[ds], k>> \in DOMAIN h5
    /\ \A ds \in 1..Len(datasets) :
          (dpc = "done" \/ (dpc # "aborted" /\ ds < dataset_idx)) =>
              \E count \in 0..Len(files[ds]) :
                  /\ (count - 1) * items_per_file < Len(files[ds])
                  /\ Len(files[ds]) <= count * items_per_file
                  /\ {key \in DOMAIN h5 : key[1] = datasets[ds]}
                        = {<<datasets[ds], k>> : k \in 1..count}

C10_PartialLastGroup ==
    /\ dpc = "done"
    /\ \E ds \in 1..Len(datasets) :
          /\ Len(files[ds]) = items_per_file + 1
          /\ <<datasets[ds], 2>> \in DOMAIN h5
          /\ Len(h5[<<datasets[ds], 2>>].images) = 1
====
